---- MODULE Spec2Model ----
(***************************************************************************)
(* Device-session state machine of media-device-selector:                  *)
(*   src/src/hooks/useMediaDevices.ts        (first variant, lines 1-440)  *)
(*   src/src/components/DeviceSelectorModal.tsx (first variant, 1-816)     *)
(*                                                                         *)
(* One step of the model is one run-to-completion piece of JavaScript: an  *)
(* event handler, an effect, or the continuation of an await.  The         *)
(* suspension points are the platform calls getUserMedia and               *)
(* enumerateDevices.  React state setters are applied in call order.       *)
(* The hook is used either directly by the embedding component, which may  *)
(* call selectDevice at any time, or through DeviceSelectorModal, where a  *)
(* device is chosen by a click on a rendered list entry.  The modal is     *)
(* modelled with showCameraPreview at its default (true) and without a     *)
(* targetMediaRef srcObject; includeCamera changes in SpecInclusion only.  *)
(*                                                                         *)
(* The pure computations, the environment probe checkEnvironmentSupport    *)
(* (src/unnamed/part_001) and the level arithmetic of the modal's audio    *)
(* monitor, are applied to inputs drawn from bounded sets in SpecPure.     *)
(* SpecMonitor adds the modal's microphone effect and volume analysis      *)
(* effect to the session, SpecGain the temporary capture of                *)
(* getSystemVolume() to SpecMonitor; SpecCatalog runs the                  *)
(* enumeration machinery on every enumeration result of up to MaxLen       *)
(* entries.  SpecRefresh follows what is attached to the platform          *)
(* (plugged) through the hot-plug refreshes, under weak fairness of the    *)
(* continuations and of the queued timer; SpecInclusion lets the           *)
(* embedding component change includeCamera between enumerations.          *)
(***************************************************************************)
EXTENDS Integers, Sequences, FiniteSets, TLC

\* ------------------------------------------------------------------ bounds
MaxStreams == 2      \* capture streams handed out to selectDevice per run
MaxPending == 2      \* selectDevice acquisitions in flight at once
MaxEvents  == 2      \* hot-plug events counted while one enumeration runs
MaxTimers  == 1      \* setTimeout(handleDeviceChange, 0) callbacks queued
MaxCalls   == 2      \* calls of checkEnvironmentSupport
BufLen     == 2      \* bins of the sampled magnitude buffer
GainDen    == 2      \* the system gain is one of 0/GainDen .. GainDen/GainDen
MaxLen     == 2      \* entries of an enumeration result in SpecCatalog
MaxFresh   == 1      \* getFreshStream calls of the modal in flight at once
MaxGain    == 1      \* getSystemVolume calls of the modal in flight at once

\* --------------------------------------------------------------- constants
Null == "null"      \* a null device id, error or kind
NoStream == 0       \* a null MediaStream reference; streams are 1, 2, ...

\* ids the user passes to selectDevice
Microphones == {"m1"}
MoreMicrophones == {"m1", "m2"}
Cameras     == {"c1"}
Speakers    == {"s1"}

InputKindsWithOutput == {"audioinput", "videoinput", "audiooutput"}

\* kind === "audioinput" || kind === "videoinput"
InputKinds == {"audioinput", "videoinput"}
Kinds      == InputKinds \cup {"audiooutput"}

IdsOf(kind) ==
    IF kind = "audioinput" THEN MoreMicrophones
    ELSE IF kind = "videoinput" THEN Cameras ELSE Speakers

Dev(id, kind) == [deviceId |-> id, kind |-> kind]

\* Results navigator.mediaDevices.enumerateDevices() may resolve with.
\* "" is a device without a stable identifier.
PlatformLists ==
    { << Dev("", "audioinput"), Dev("m2", "audioinput"),
         Dev("m1", "audioinput"), Dev("c1", "videoinput"),
         Dev("s2", "audiooutput"), Dev("s1", "audiooutput") >> }

\* Entries of the enumeration results of SpecCatalog: with and without a
\* stable identifier, of the three kinds and of a kind the hook does not know
PlatformIds     == {"", "d1"}
PlatformKinds   == Kinds \cup {"other"}
PlatformEntries == {Dev(id, kind) : id \in PlatformIds, kind \in PlatformKinds}

EnumerationResults == UNION {[1..n -> PlatformEntries] : n \in 0..MaxLen}

\* What is attached to the platform in SpecRefresh: nothing; one microphone;
\* a microphone, a camera and a speaker without a stable identifier
AttachedSets ==
    { << >>,
      << Dev("m1", "audioinput") >>,
      << Dev("m1", "audioinput"), Dev("c1", "videoinput"),
         Dev("", "audiooutput") >> }

VARIABLES
    includeCamera,            \* options.includeCamera
    isMediaDevicesSupported,  \* "mediaDevices" in navigator
    viaModal,                 \* the hook is used by DeviceSelectorModal
    micIds,                   \* the microphone ids the user chooses among
    started,                  \* the mount effects have run
    permissionStatus, devices, selectedDevices, activeStream,
    isLoading, error, hasInitialDevices,          \* React state of the hook
    streamRef, isMounted, initRef,                \* refs
    listener,                 \* how many "devicechange" listeners of the
                              \* hook are registered
    isEnumerating, pendingDeviceChange, timers,   \* effect closure
    enumGum, enumList,        \* enumerations suspended at each await
    permStream,               \* the stream of the permission request, in
                              \* the enumeration suspended at
                              \* enumerateDevices()
    snapshot,                 \* the device list the suspended
                              \* enumerateDevices() call resolves with in
                              \* SpecRefresh: what was attached when it was
                              \* called
    plugged,                  \* the devices attached to the platform
    pending,                  \* selectDevice calls suspended at getUserMedia
    streams,                  \* capture streams handed out to selectDevice
    isOpen, videoSrc, previewDeps,                \* modal
    eventsDuring,             \* hot-plug events that arrived during the
                              \* running, or else the latest, enumeration
                              \* (history)
    lastCam,                  \* the latest camera choice of the user: the id
                              \* of selectDevice("videoinput", id), or Null
                              \* after "No camera" (history)
    lastList,                 \* what the step just taken did with a device
                              \* list: "applied", "discarded", "none"
                              \* (history)
    platformList,             \* the list enumerateDevices() resolved with
                              \* in the step just taken (history)
    unhandled,                \* a promise of selectDevice or of
                              \* handleDeviceChange has rejected (history)
    env,                      \* what the platform exposes: window,
                              \* navigator.mediaDevices and its two methods
    report, probeCalls,       \* the latest EnvironmentSupport report, and
                              \* how many times the probe was called
    systemVolume, volume,     \* React state of the modal's audio monitor
    sampled,                  \* the sum of the buffer the monitor read last
                              \* (history)
    normalizedVolume,         \* the level the monitor computed last, before
                              \* gain scaling (history)
    monitorStep,              \* the monitor loop that ran last (history)
    micDeps,                  \* [isOpen, microphoneId] at the last run of the
                              \* microphone effect
    initTimer,                \* its setTimeout(..., 50) is pending
    freshCur,                 \* getFreshStream calls in flight whose effect
                              \* run is current (its isMounted is true)
    freshOld,                 \* ... whose effect run has been cleaned up
    audioStreamRef,           \* audioStreamRef.current holds a live stream
    analysisFrame,            \* a frame of analyzeAudio is requested
    volDeps,                  \* the dependencies at the last run of the
                              \* volume analysis effect
    animationRunning,         \* a frame of updateVolume is requested
    gainDeps,                 \* [isOpen, microphoneId] at the last run of the
                              \* effect that calls getSystemVolume
    gainCalls,                \* getSystemVolume calls awaiting getUserMedia
    gainLive                  \* a stream of getSystemVolume has live tracks

hookState == << permissionStatus, devices, selectedDevices, activeStream,
                isLoading, error, hasInitialDevices >>
refs      == << streamRef, isMounted, initRef, listener >>
closure   == << isEnumerating, pendingDeviceChange, timers >>
procs     == << enumGum, enumList, permStream, snapshot, pending, streams >>
modal     == << isOpen, videoSrc, previewDeps >>
config    == << includeCamera, isMediaDevicesSupported, viaModal, micIds >>
history   == << eventsDuring, lastCam, lastList, platformList,
                unhandled >>
probe     == << env, report, probeCalls >>
monitor   == << systemVolume, volume, sampled, normalizedVolume,
                monitorStep >>
audio     == << micDeps, initTimer, freshCur,
                freshOld, audioStreamRef, analysisFrame, volDeps,
                animationRunning, gainDeps, gainCalls, gainLive >>

vars == << config, started, hookState, refs, closure, procs, modal, history,
          probe, monitor, audio, plugged >>


\* ----------------------------------------------------------------- helpers
Remove(seq, i) == SubSeq(seq, 1, i - 1) \o SubSeq(seq, i + 1, Len(seq))

\* device.kind.toLowerCase().includes(...) on the kind strings of the model
KindHasVideo(k) == k = "videoinput"
KindHasAudio(k) == k \in {"audioinput", "audiooutput"}
KindHasOut(k)   == k = "audiooutput"

MapKindIdentity(k) == k

MapKind(k) ==
    IF KindHasVideo(k) THEN "videoinput"
    ELSE IF KindHasAudio(k)
         THEN (IF KindHasOut(k) THEN "audiooutput" ELSE "audioinput")
         ELSE "audioinput"

KeepDevice(d) ==
    /\ d.deviceId # ""
    /\ ~(~includeCamera /\ KindHasVideo(d.kind))

FormatDevice(d) == [deviceId |-> d.deviceId, kind |-> MapKind(d.kind)]

FormatDevices(list) ==
    LET kept == SelectSeq(list, KeepDevice)
    IN  [i \in 1..Len(kept) |-> FormatDevice(kept[i])]

OfKind(list, kind) == SelectSeq(list, LAMBDA d : d.kind = kind)

\* audioInputs[0]?.deviceId || null
FirstId(list, kind) ==
    LET l == OfKind(list, kind)
    IN  IF Len(l) > 0 THEN l[1].deviceId ELSE Null

SeedAlways(prev, first) == first

\* prev.microphoneId || audioInputs[0]?.deviceId || null
SeedDefault(prev, first) == IF prev # Null THEN prev ELSE first

EnumCameraIdFirst(list) == FirstId(list, "videoinput")

\* cameraId: null, // Always default to no camera selected
EnumCameraId(list) == Null

SeedSelection(prev, list) ==
    [microphoneId |-> SeedDefault(prev.microphoneId,
                                  FirstId(list, "audioinput")),
     speakerId    |-> SeedDefault(prev.speakerId,
                                  FirstId(list, "audiooutput")),
     cameraId     |-> EnumCameraId(list)]

SelectionUpdateNone(prev, kind, id) == prev

\* the two setSelectedDevices updaters of selectDevice
SelectionUpdate(prev, kind, id) ==
    IF kind = "audioinput" THEN [prev EXCEPT !.microphoneId = id]
    ELSE IF kind = "videoinput" THEN [prev EXCEPT !.cameraId = id]
    ELSE [prev EXCEPT !.speakerId = id]

\* err instanceof Error ? err : new Error(`Failed to access ${kind}`)
AccessError(kind) == "access"

TrackKind(kind) == IF kind = "audioinput" THEN "audio" ELSE "video"

\* stream.getTracks().forEach((track) => track.stop())
StopTracks(ss, id) == IF id = NoStream THEN ss ELSE [ss EXCEPT ![id].live = FALSE]

cleanupStreamRefKept == streamRef

\* cleanup(): the three things it writes
cleanupStreams      == StopTracks(streams, streamRef)
cleanupStreamRef    == NoStream
cleanupActiveStream == IF streamRef # NoStream THEN NoStream ELSE activeStream

\* !hasInitialDevices || isLoading
PublishedLoading == ~hasInitialDevices \/ isLoading

MarkSelectedNever(list, id) ==
    [i \in 1..Len(list) |->
        [deviceId |-> list[i].deviceId, kind |-> list[i].kind,
         isSelected |-> FALSE]]

\* list.map((d) => ({ ...d, isSelected: d.deviceId === id }))
MarkSelected(list, id) ==
    [i \in 1..Len(list) |->
        [deviceId |-> list[i].deviceId, kind |-> list[i].kind,
         isSelected |-> (list[i].deviceId = id)]]

NoDeviceLists == [microphones |-> << >>, cameras |-> << >>, speakers |-> << >>]

\* the useMemo of deviceLists
deviceLists ==
    IF ~hasInitialDevices \/ isLoading THEN NoDeviceLists
    ELSE [microphones |-> MarkSelected(OfKind(devices, "audioinput"),
                                       selectedDevices.microphoneId),
          cameras     |-> MarkSelected(OfKind(devices, "videoinput"),
                                       selectedDevices.cameraId),
          speakers    |-> MarkSelected(OfKind(devices, "audiooutput"),
                                       selectedDevices.speakerId)]

\* hasInitialDevices ? deviceLists : { microphones: [], ... }
exposedDeviceLists == IF hasInitialDevices THEN deviceLists ELSE NoDeviceLists

\* <video ref={videoRef}> is rendered
VideoElement ==
    /\ viaModal /\ started /\ isMounted /\ isOpen
    /\ isMediaDevicesSupported
    /\ permissionStatus # "denied"
    /\ includeCamera
    /\ selectedDevices.cameraId # Null

\* the element is new, or gone, after a render that did not keep it
Render(src) == videoSrc' = IF VideoElement' THEN src ELSE NoStream

PreviewDeps == << activeStream, isOpen, selectedDevices.cameraId >>

\* the camera preview effect has to run before anything else does
EffectPending ==
    viaModal /\ started /\ isMounted /\ previewDeps # PreviewDeps

StopPermStreamNever(stream) == stream

\* no enumeration is suspended at enumerateDevices()
NoPermStream == [audio |-> FALSE, video |-> FALSE, live |-> FALSE]

\* const constraints = { audio: true, video: includeCamera }
PermConstraints == [audio |-> TRUE, video |-> includeCamera]

\* the stream getUserMedia(constraints) resolves with
NewPermStream(constraints) ==
    [audio |-> constraints.audio, video |-> constraints.video, live |-> TRUE]

\* stream.getTracks().forEach((track) => track.stop())
StopPermStream(stream) == [stream EXCEPT !.live = FALSE]

\* the state of the hook and of the modal before the mount effects run
InitState ==
    /\ started = FALSE
    /\ permissionStatus = "prompt"
    /\ devices = << >>
    /\ selectedDevices =
          [microphoneId |-> Null, cameraId |-> Null, speakerId |-> Null]
    /\ activeStream = NoStream
    /\ isLoading = TRUE
    /\ error = Null
    /\ hasInitialDevices = FALSE
    /\ streamRef = NoStream
    /\ isMounted = TRUE
    /\ initRef = FALSE
    /\ listener = 0
    /\ isEnumerating = FALSE
    /\ pendingDeviceChange = FALSE
    /\ timers = 0
    /\ enumGum = 0
    /\ enumList = 0
    /\ permStream = NoPermStream
    /\ snapshot = << >>
    /\ pending = << >>
    /\ streams = << >>
    /\ isOpen = FALSE
    /\ videoSrc = NoStream
    /\ previewDeps = << NoStream, FALSE, Null >>
    /\ eventsDuring = 0
    /\ lastCam = Null
    /\ lastList = "none"
    /\ unhandled = FALSE
    /\ platformList = << >>

\* ------------------------------------------ part_001: checkEnvironmentSupport
\* the probe has not been called
NoReport ==
    [isBrowser |-> FALSE, isMediaDevicesSupported |-> FALSE,
     isGetUserMediaSupported |-> FALSE, isEnumerateDevicesSupported |-> FALSE,
     error |-> "not-called"]

\* let error: MediaDeviceError | undefined
NoError == "undefined"

Platforms ==
    [window : BOOLEAN, mediaDevices : BOOLEAN, getUserMedia : BOOLEAN,
     enumerateDevices : BOOLEAN]

\* a browser whose navigator has mediaDevices, complete, or has not
BrowserPlatform(supported) ==
    [window |-> TRUE, mediaDevices |-> supported, getUserMedia |-> supported,
     enumerateDevices |-> supported]

checkEnvironmentSupportEnumFirst(e) ==
    IF ~e.window
    THEN [isBrowser |-> FALSE, isMediaDevicesSupported |-> FALSE,
          isGetUserMediaSupported |-> FALSE,
          isEnumerateDevicesSupported |-> FALSE, error |-> "browser"]
    ELSE [isBrowser |-> TRUE, isMediaDevicesSupported |-> e.mediaDevices,
          isGetUserMediaSupported |-> e.mediaDevices /\ e.getUserMedia,
          isEnumerateDevicesSupported |->
              e.mediaDevices /\ e.enumerateDevices,
          error |->
              IF ~e.mediaDevices THEN "mediaDevices"
              ELSE IF ~e.enumerateDevices THEN "enumerateDevices"
              ELSE IF ~e.getUserMedia THEN "getUserMedia"
              ELSE NoError]

\* checkEnvironmentSupport() on platform e; error is named by the capability
\* its message is about
checkEnvironmentSupport(e) ==
    LET isBrowser == e.window
    IN  IF ~isBrowser
        THEN [isBrowser |-> FALSE, isMediaDevicesSupported |-> FALSE,
              isGetUserMediaSupported |-> FALSE,
              isEnumerateDevicesSupported |-> FALSE, error |-> "browser"]
        ELSE LET isMDSupported   == e.mediaDevices
                 isGumSupported  == isMDSupported /\ e.getUserMedia
                 isEnumSupported == isMDSupported /\ e.enumerateDevices
             IN  [isBrowser |-> isBrowser,
                  isMediaDevicesSupported |-> isMDSupported,
                  isGetUserMediaSupported |-> isGumSupported,
                  isEnumerateDevicesSupported |-> isEnumSupported,
                  error |->
                      IF ~isMDSupported THEN "mediaDevices"
                      ELSE IF ~isGumSupported THEN "getUserMedia"
                      ELSE IF ~isEnumSupported THEN "enumerateDevices"
                      ELSE NoError]

ProbeInit == report = NoReport /\ probeCalls = 0

\* --------------------------------- DeviceSelectorModal.tsx: the audio monitor
Threshold == 50     \* const threshold = 50
MaxByte   == 255    \* average / 255
DecayDen  == 50     \* prevVolume - 0.02, that is 1/50

\* byte magnitudes getByteFrequencyData may write into a bin
Samples == {0, Threshold, MaxByte}

Buffers == [1..BufLen -> Samples]

\* levels are counted in units of 1/LevelDen
LevelDen == MaxByte * BufLen * GainDen * DecayDen

Min(a, b) == IF a < b THEN a ELSE b
Max(a, b) == IF a > b THEN a ELSE b

RECURSIVE SumTo(_, _)
SumTo(buf, n) == IF n = 0 THEN 0 ELSE buf[n] + SumTo(buf, n - 1)

\* sum of dataArray
Sum(buf) == SumTo(buf, BufLen)

\* (sum / bufferLength) / 255
Level(sum) == sum * GainDen * DecayDen

\* average < threshold ? 0 : Math.min(average / 255, 1)
NormalizedVolume(sum) ==
    IF sum < Threshold * BufLen THEN 0 ELSE Min(Level(sum), LevelDen)

\* normalizedVolume * systemVolume
SystemScaledVolume(normalized, gain) == (normalized * gain) \div GainDen

\* the setVolume updater: fast response to sound, slow decay
NewVolume(scaled, prevVolume) ==
    IF scaled > prevVolume THEN scaled
    ELSE Max(prevVolume - LevelDen \div DecayDen, 0)

\* useState(0), useState(1)
MonitorInit ==
    /\ volume = 0
    /\ systemVolume = GainDen
    /\ sampled = 0
    /\ normalizedVolume = 0
    /\ monitorStep = "none"

\* the dependencies of the modal's two microphone effects, and of its
\* volume analysis effect
MicDeps == << isOpen, selectedDevices.microphoneId >>
VolDeps == << activeStream, selectedDevices.microphoneId, isOpen,
              isMediaDevicesSupported, permissionStatus >>

\* the modal's audio effects after their run at mount: the modal is closed,
\* they have started nothing
AudioInit ==
    /\ micDeps = << FALSE, Null >>
    /\ initTimer = FALSE
    /\ freshCur = 0
    /\ freshOld = 0
    /\ audioStreamRef = FALSE
    /\ analysisFrame = FALSE
    /\ volDeps = << NoStream, Null, FALSE, isMediaDevicesSupported, "prompt" >>
    /\ animationRunning = FALSE
    /\ gainDeps = << FALSE, Null >>
    /\ gainCalls = 0
    /\ gainLive = FALSE

Init ==
    /\ includeCamera \in BOOLEAN
    /\ isMediaDevicesSupported \in BOOLEAN
    /\ viaModal \in BOOLEAN
    /\ micIds = Microphones
    /\ InitState
    /\ plugged \in PlatformLists
    /\ env = BrowserPlatform(isMediaDevicesSupported)
    /\ ProbeInit
    /\ MonitorInit
    /\ AudioInit

\* a session on a supporting platform, with the camera included, in which
\* the user chooses among two microphones
InitTwoMicrophones ==
    /\ includeCamera = TRUE
    /\ isMediaDevicesSupported = TRUE
    /\ viaModal \in BOOLEAN
    /\ micIds = MoreMicrophones
    /\ InitState
    /\ plugged \in PlatformLists
    /\ env = BrowserPlatform(isMediaDevicesSupported)
    /\ ProbeInit
    /\ MonitorInit
    /\ AudioInit

\* any platform; the modal is mounted on it and nothing else has happened
InitPure ==
    /\ env \in Platforms
    /\ includeCamera = TRUE
    /\ isMediaDevicesSupported = env.mediaDevices
    /\ viaModal = TRUE
    /\ micIds = Microphones
    /\ InitState
    /\ plugged \in PlatformLists
    /\ ProbeInit
    /\ MonitorInit
    /\ AudioInit


\* ------------------------------------------------------- useMediaDevices.ts
TryNoCatch(raised) == raised

\* try { ... } catch (err) { ... }: what the block raised does not leave it
TryCatch(raised) == FALSE

\* try { ... } finally { ... }: what the block raised leaves it
TryFinally(raised) == raised

\* the promise of selectDevice rejects when its capture request raised: the
\* inner try/catch around the await, inside the outer try/catch
selectDeviceRejects(raised) == TryCatch(TryCatch(raised))

\* the promise of enumerateDevices rejects when one of its awaits raised
enumerateDevicesRejects(raised) == TryCatch(raised)

\* the promise of handleDeviceChange rejects:
\* try { await enumerateDevices() } finally { ... }
handleDeviceChangeRejects(raised) ==
    TryFinally(enumerateDevicesRejects(raised))

\* addEventListener("devicechange", handleDeviceChange), with the
\* handleDeviceChange this run of the effect has created
AddListener(n) == n + 1

RemoveListenerNever(n) == n

\* if (deviceChangeHandler.current) removeEventListener("devicechange", ...)
RemoveListener(n) == IF n > 0 THEN n - 1 ELSE 0

DiscardNever == FALSE

\* if (!isMounted.current) after an await
Discard == ~isMounted

\* selectDevice(kind, deviceId) up to its await; the suspended call keeps
\* what activeStream and the streams were when it was made
selectDevice(kind, id) ==
    IF ~isMediaDevicesSupported
    THEN /\ error' = "not-supported"
         /\ UNCHANGED << selectedDevices, streams, streamRef, activeStream,
                         pending, lastCam >>
    ELSE /\ error' = Null
         /\ selectedDevices' = SelectionUpdate(selectedDevices, kind, id)
         /\ lastCam' = IF kind = "videoinput" THEN id ELSE lastCam
         /\ IF kind \in InputKinds
            THEN /\ streams' = cleanupStreams
                 /\ streamRef' = cleanupStreamRef
                 /\ activeStream' = cleanupActiveStream
                 /\ pending' = Append(pending,
                        [kind |-> kind, deviceId |-> id,
                         before |-> activeStream,
                         count |-> Len(streams),
                         live |-> {s \in 1..Len(streams) : streams[s].live}])
            ELSE UNCHANGED << streams, streamRef, activeStream, pending >>

CanAcquire ==
    /\ Len(pending) < MaxPending
    /\ Len(streams) + Len(pending) < MaxStreams

\* renderDeviceLists() shows the list entry of device id
ListEntryShown(kind, id) ==
    /\ isOpen
    /\ isMediaDevicesSupported
    /\ permissionStatus # "denied"
    /\ ~PublishedLoading
    /\ error = Null
    /\ kind = "videoinput" => includeCamera
    /\ \E i \in 1..Len(devices) :
          devices[i].kind = kind /\ devices[i].deviceId = id

\* selectDevice(kind, id): called by the embedding component, or by
\* handleDeviceSelect(kind, id) on a click on the list entry
UserSelect(kind, id) ==
    /\ started /\ isMounted /\ ~EffectPending
    /\ kind = "audioinput" => id \in micIds
    /\ viaModal => ListEntryShown(kind, id)
    /\ kind \in InputKinds => CanAcquire
    /\ selectDevice(kind, id)
    /\ platformList' = << >>
    /\ lastList' = "none"
    /\ UNCHANGED << plugged, probe, monitor, audio, permStream, snapshot, unhandled, config, started, permissionStatus, devices, isLoading,
                    hasInitialDevices, isMounted, initRef, listener, closure,
                    enumGum, enumList, isOpen, previewDeps, eventsDuring >>
    /\ Render(videoSrc)

\* the MediaStream getUserMedia resolves with for a selectDevice call
NewStream(op, discard) ==
    [kind |-> TrackKind(op.kind), deviceId |-> op.deviceId,
     live |-> ~discard, late |-> discard]

\* const stream = await getUserMedia(constraints) resolved
AcquireResolve(i) ==
    /\ i \in 1..Len(pending)
    /\ ~EffectPending
    /\ pending' = Remove(pending, i)
    /\ streams' = Append(streams, NewStream(pending[i], Discard))
    /\ streamRef' = IF Discard THEN streamRef ELSE Len(streams) + 1
    /\ activeStream' = IF Discard THEN activeStream ELSE Len(streams) + 1
    /\ platformList' = << >>
    /\ lastList' = "none"
    /\ UNCHANGED << plugged, probe, monitor, audio, permStream, snapshot, unhandled, config, started, permissionStatus, devices,
                    selectedDevices, isLoading, error, hasInitialDevices,
                    isMounted, initRef, listener, closure, enumGum, enumList,
                    isOpen, previewDeps, eventsDuring, lastCam >>
    /\ Render(videoSrc)

\* await getUserMedia(constraints) rejected
AcquireReject(i) ==
    /\ i \in 1..Len(pending)
    /\ ~EffectPending
    /\ pending' = Remove(pending, i)
    /\ error' = IF isMounted THEN AccessError(pending[i].kind) ELSE error
    /\ unhandled' = (unhandled \/ selectDeviceRejects(TRUE))
    /\ platformList' = << >>
    /\ lastList' = "none"
    /\ UNCHANGED << plugged, probe, monitor, audio, permStream, snapshot, config, started, permissionStatus, devices,
                    selectedDevices, activeStream, isLoading,
                    hasInitialDevices, refs, closure, enumGum, enumList,
                    streams, isOpen, previewDeps, eventsDuring, lastCam >>
    /\ Render(videoSrc)

\* enumerateDevices() up to its first await
enumerateDevicesStart ==
    /\ isLoading' = TRUE
    /\ error' = Null
    /\ enumGum' = enumGum + 1

handleDeviceChangeEvery ==
    IF ~isMounted
    THEN UNCHANGED << isEnumerating, pendingDeviceChange, isLoading, error,
                      enumGum >>
    ELSE /\ isEnumerating' = TRUE
         /\ enumerateDevicesStart
         /\ UNCHANGED pendingDeviceChange

handleDeviceChangeNoTrail ==
    IF ~isMounted \/ isEnumerating
    THEN UNCHANGED << isEnumerating, pendingDeviceChange, isLoading, error,
                      enumGum >>
    ELSE /\ isEnumerating' = TRUE
         /\ enumerateDevicesStart
         /\ UNCHANGED pendingDeviceChange

\* handleDeviceChange() up to its await
handleDeviceChange ==
    IF ~isMounted
    THEN UNCHANGED << isEnumerating, pendingDeviceChange, isLoading, error,
                      enumGum >>
    ELSE IF isEnumerating
    THEN /\ pendingDeviceChange' = TRUE
         /\ UNCHANGED << isEnumerating, isLoading, error, enumGum >>
    ELSE /\ isEnumerating' = TRUE
         /\ enumerateDevicesStart
         /\ UNCHANGED pendingDeviceChange

\* the flag is read and no run is queued
TrailingNever == IF pendingDeviceChange THEN 0 ELSE 0

\* if (pendingDeviceChange) { ...; setTimeout(handleDeviceChange, 0) }
Trailing == IF pendingDeviceChange THEN 1 ELSE 0

\* the finally blocks of enumerateDevices, handleDeviceChange and initialize
enumerateFinally ==
    /\ timers + Trailing <= MaxTimers
    /\ isLoading' = IF isMounted THEN FALSE ELSE isLoading
    /\ isEnumerating' = FALSE
    /\ pendingDeviceChange' = FALSE
    /\ timers' = timers + Trailing

enumerateCatchBoth(denied) ==
    /\ permissionStatus' = IF isMounted THEN "denied" ELSE permissionStatus
    /\ error' = IF isMounted THEN "enumerate" ELSE error

\* the catch block of enumerateDevices
enumerateCatch(denied) ==
    /\ permissionStatus' =
          IF isMounted /\ denied THEN "denied" ELSE permissionStatus
    /\ error' = IF isMounted /\ ~denied THEN "enumerate" ELSE error

\* the mount effects of the hook and of the modal
Start ==
    /\ ~started
    /\ started' = TRUE
    /\ IF ~isMediaDevicesSupported
       THEN /\ error' = "not-supported"
            /\ isLoading' = FALSE
            /\ UNCHANGED << initRef, listener, isEnumerating,
                            pendingDeviceChange, enumGum >>
       ELSE /\ initRef' = TRUE
            /\ listener' = AddListener(listener)
            /\ handleDeviceChange
    /\ selectedDevices' =
          IF ~includeCamera THEN [selectedDevices EXCEPT !.cameraId = Null]
          ELSE selectedDevices
    /\ isMounted' = TRUE
    /\ platformList' = << >>
    /\ lastList' = "none"
    /\ UNCHANGED << plugged, probe, monitor, audio, permStream, snapshot, unhandled, config, permissionStatus, devices, activeStream,
                    hasInitialDevices, streamRef, timers, enumList, pending,
                    streams, isOpen, previewDeps, eventsDuring, lastCam >>
    /\ Render(videoSrc)

\* a "devicechange" event is dispatched to the listener
DeviceChangeEvent ==
    /\ listener > 0 /\ ~EffectPending
    /\ isEnumerating => eventsDuring < MaxEvents
    /\ handleDeviceChange
    /\ eventsDuring' = IF isEnumerating THEN eventsDuring + 1 ELSE 0
    /\ platformList' = << >>
    /\ lastList' = "none"
    /\ UNCHANGED << probe, monitor, audio, permStream, snapshot, unhandled, config, started, permissionStatus, devices,
                    selectedDevices, activeStream, hasInitialDevices, refs,
                    timers, enumList, pending, streams, isOpen, previewDeps,
                    lastCam >>
    /\ Render(videoSrc)

\* the platform fires "devicechange"
HotPlug == DeviceChangeEvent /\ UNCHANGED plugged

\* the set of attached devices becomes list, and the platform fires
\* "devicechange"
Replug(list) ==
    /\ list # plugged
    /\ plugged' = list
    /\ DeviceChangeEvent

\* setTimeout(handleDeviceChange, 0) fires
TrailingRun ==
    /\ timers > 0 /\ ~EffectPending
    /\ timers' = timers - 1
    /\ handleDeviceChange
    /\ eventsDuring' = IF isMounted /\ ~isEnumerating THEN 0 ELSE eventsDuring
    /\ platformList' = << >>
    /\ lastList' = "none"
    /\ UNCHANGED << plugged, probe, monitor, audio, permStream, snapshot, unhandled, config, started, permissionStatus, devices,
                    selectedDevices, activeStream, hasInitialDevices, refs,
                    enumList, pending, streams, isOpen, previewDeps,
                    lastCam >>
    /\ Render(videoSrc)

\* the permission getUserMedia of enumerateDevices resolved: the stream's
\* tracks are stopped at once, enumerateDevices() is requested
EnumGumResolve ==
    /\ enumGum > 0 /\ ~EffectPending
    /\ enumGum' = enumGum - 1
    /\ enumList' = enumList + 1
    /\ permStream' = StopPermStream(NewPermStream(PermConstraints))
    /\ snapshot' = plugged
    /\ platformList' = << >>
    /\ lastList' = "none"
    /\ UNCHANGED << plugged, probe, monitor, audio, unhandled, config, started, hookState, refs, closure, pending,
                    streams, isOpen, previewDeps, eventsDuring, lastCam >>
    /\ Render(videoSrc)

\* the permission getUserMedia of enumerateDevices rejected
EnumGumReject(denied) ==
    /\ enumGum > 0 /\ ~EffectPending
    /\ enumGum' = enumGum - 1
    /\ enumerateCatch(denied)
    /\ enumerateFinally
    /\ unhandled' = (unhandled \/ handleDeviceChangeRejects(TRUE))
    /\ platformList' = << >>
    /\ lastList' = "none"
    /\ UNCHANGED << plugged, probe, monitor, audio, permStream, snapshot, config, started, devices, selectedDevices, activeStream,
                    hasInitialDevices, refs, enumList, pending, streams,
                    isOpen, previewDeps, eventsDuring, lastCam >>
    /\ Render(videoSrc)

\* enumerateDevices() resolved with list
EnumListResolve(list) ==
    /\ enumList > 0 /\ ~EffectPending
    /\ enumList' = enumList - 1
    /\ IF Discard
       THEN UNCHANGED << devices, selectedDevices, permissionStatus,
                         hasInitialDevices >>
       ELSE /\ devices' = FormatDevices(list)
            /\ selectedDevices' =
                  SeedSelection(selectedDevices, FormatDevices(list))
            /\ permissionStatus' = "granted"
            /\ hasInitialDevices' =
                  (hasInitialDevices \/ Len(FormatDevices(list)) > 0)
    /\ enumerateFinally
    /\ platformList' = list
    /\ permStream' = NoPermStream
    /\ snapshot' = << >>
    /\ lastList' = IF Discard THEN "discarded" ELSE "applied"
    /\ UNCHANGED << plugged, probe, monitor, audio, unhandled, config, started, activeStream, error, refs, enumGum,
                    pending, streams, isOpen, previewDeps, eventsDuring,
                    lastCam >>
    /\ Render(videoSrc)

\* enumerateDevices() rejected
EnumListReject(denied) ==
    /\ enumList > 0 /\ ~EffectPending
    /\ enumList' = enumList - 1
    /\ enumerateCatch(denied)
    /\ enumerateFinally
    /\ unhandled' = (unhandled \/ handleDeviceChangeRejects(TRUE))
    /\ platformList' = << >>
    /\ permStream' = NoPermStream
    /\ snapshot' = << >>
    /\ lastList' = "none"
    /\ UNCHANGED << plugged, probe, monitor, audio, config, started, devices, selectedDevices, activeStream,
                    hasInitialDevices, refs, enumGum, pending, streams,
                    isOpen, previewDeps, eventsDuring, lastCam >>
    /\ Render(videoSrc)

\* unmount: the cleanup of the device change effect, then of the unmount
\* effect; the modal and its effects are gone with the component
Unmount ==
    /\ started /\ isMounted /\ ~EffectPending
    /\ listener' = RemoveListener(listener)
    /\ streams' = cleanupStreams
    /\ streamRef' = cleanupStreamRef
    /\ activeStream' = cleanupActiveStream
    /\ initRef' = FALSE
    /\ isMounted' = FALSE
    /\ isOpen' = FALSE
    /\ previewDeps' = << NoStream, FALSE, Null >>
    /\ platformList' = << >>
    /\ lastList' = "none"
    /\ UNCHANGED << plugged, probe, monitor, audio, permStream, snapshot, unhandled, config, started, permissionStatus, devices,
                    selectedDevices, isLoading, error, hasInitialDevices,
                    closure, enumGum, enumList, pending, eventsDuring,
                    lastCam >>
    /\ Render(videoSrc)

\* ------------------------------------------------- DeviceSelectorModal.tsx
\* handleOpen / handleClose / handleConfirm
SetOpen(open) ==
    /\ viaModal /\ started /\ isMounted /\ ~EffectPending
    /\ isOpen # open
    /\ isOpen' = open
    /\ platformList' = << >>
    /\ lastList' = "none"
    /\ UNCHANGED << plugged, probe, monitor, audio, unhandled, config, started, hookState, refs, closure, procs,
                    previewDeps, eventsDuring, lastCam >>
    /\ Render(videoSrc)

\* the camera preview effect: cleanup of its previous run, then its body
CameraPreviewEffect ==
    /\ EffectPending
    /\ previewDeps' = PreviewDeps
    /\ platformList' = << >>
    /\ lastList' = "none"
    /\ UNCHANGED << plugged, probe, monitor, audio, permStream, snapshot, unhandled, config, started, permissionStatus, devices, isLoading,
                    hasInitialDevices, isMounted, initRef, listener, closure,
                    enumGum, enumList, isOpen, eventsDuring >>
    /\ IF VideoElement /\ activeStream = NoStream
       THEN /\ CanAcquire
            /\ selectDevice("videoinput", selectedDevices.cameraId)
            /\ Render(NoStream)
       ELSE /\ UNCHANGED << selectedDevices, activeStream, error, streamRef,
                            pending, streams, lastCam >>
            /\ Render(activeStream)

\* the "No camera" entry of the camera list is on screen
NoCameraOption ==
    /\ viaModal /\ started /\ isMounted /\ isOpen
    /\ isMediaDevicesSupported
    /\ permissionStatus # "denied"
    /\ includeCamera
    /\ ~PublishedLoading
    /\ error = Null

\* handleDeviceSelect("videoinput", null)
DeselectCamera ==
    /\ NoCameraOption /\ ~EffectPending
    /\ streams' = StopTracks(streams, videoSrc)
    /\ selectedDevices' = [selectedDevices EXCEPT !.cameraId = Null]
    /\ lastCam' = Null
    /\ platformList' = << >>
    /\ lastList' = "none"
    /\ UNCHANGED << plugged, probe, monitor, audio, permStream, snapshot, unhandled, config, started, permissionStatus, devices, activeStream,
                    isLoading, error, hasInitialDevices, refs, closure,
                    enumGum, enumList, pending, isOpen, previewDeps,
                    eventsDuring >>
    /\ Render(NoStream)

\* ---------------------------------------------------------- specification
Next ==
    \/ Start
    \/ \E kind \in Kinds : \E id \in IdsOf(kind) : UserSelect(kind, id)
    \/ \E i \in 1..MaxPending : AcquireResolve(i)
    \/ \E i \in 1..MaxPending : AcquireReject(i)
    \/ HotPlug
    \/ TrailingRun
    \/ EnumGumResolve
    \/ \E denied \in BOOLEAN : EnumGumReject(denied)
    \/ \E list \in PlatformLists : EnumListResolve(list)
    \/ \E denied \in BOOLEAN : EnumListReject(denied)
    \/ Unmount
    \/ \E open \in BOOLEAN : SetOpen(open)
    \/ CameraPreviewEffect
    \/ DeselectCamera

Spec == Init /\ [][Next]_vars

SpecTwoMicrophones == InitTwoMicrophones /\ [][Next]_vars

\* the enumerations alone, one after the other, on every enumeration result
\* of up to MaxLen entries
InitCatalog ==
    /\ includeCamera \in BOOLEAN
    /\ isMediaDevicesSupported = TRUE
    /\ viaModal = FALSE
    /\ micIds = Microphones
    /\ InitState
    /\ plugged \in PlatformLists
    /\ env = BrowserPlatform(isMediaDevicesSupported)
    /\ ProbeInit
    /\ MonitorInit
    /\ AudioInit

\* the hot-plug events of SpecCatalog arrive while no enumeration runs
NextCatalog ==
    \/ Start
    \/ ~isEnumerating /\ HotPlug
    \/ EnumGumResolve
    \/ \E list \in EnumerationResults : EnumListResolve(list)
    \/ Unmount

SpecCatalog == InitCatalog /\ [][NextCatalog]_vars

\* the enumerations of a session whose platform calls succeed, while devices
\* are attached and detached: enumerateDevices() resolves with what was
\* attached when it was called
InitRefresh ==
    /\ includeCamera \in BOOLEAN
    /\ isMediaDevicesSupported = TRUE
    /\ viaModal = FALSE
    /\ micIds = Microphones
    /\ InitState
    /\ plugged \in AttachedSets
    /\ env = BrowserPlatform(isMediaDevicesSupported)
    /\ ProbeInit
    /\ MonitorInit
    /\ AudioInit

NextRefresh ==
    \/ Start
    \/ \E list \in AttachedSets : Replug(list)
    \/ TrailingRun
    \/ EnumGumResolve
    \/ EnumListResolve(snapshot)
    \/ Unmount

\* a pending platform call settles, a queued timer callback runs
FairRefresh ==
    /\ WF_vars(EnumGumResolve)
    /\ WF_vars(EnumListResolve(snapshot))
    /\ WF_vars(TrailingRun)

SpecRefresh == InitRefresh /\ [][NextRefresh]_vars /\ FairRefresh

\* options.includeCamera becomes b while no enumeration is in flight and no
\* trailing call is queued: the includeCamera effect, then the cleanup of the
\* device change effect and its body again, with a new closure
SetIncludeCamera(b) ==
    /\ started /\ isMounted /\ ~EffectPending
    /\ b # includeCamera
    /\ enumGum + enumList = 0 /\ timers = 0
    /\ includeCamera' = b
    /\ selectedDevices' =
          IF ~b THEN [selectedDevices EXCEPT !.cameraId = Null]
          ELSE selectedDevices
    /\ IF ~isMediaDevicesSupported
       THEN /\ error' = "not-supported"
            /\ isLoading' = FALSE
            /\ UNCHANGED << initRef, listener, isEnumerating,
                            pendingDeviceChange, enumGum, streams, streamRef,
                            activeStream >>
       ELSE /\ listener' = AddListener(RemoveListener(listener))
            /\ streams' = cleanupStreams
            /\ streamRef' = cleanupStreamRef
            /\ activeStream' = cleanupActiveStream
            /\ initRef' = TRUE
            /\ handleDeviceChange
    /\ eventsDuring' = 0
    /\ platformList' = << >>
    /\ lastList' = "none"
    /\ UNCHANGED << plugged, probe, monitor, audio, permStream, snapshot,
                    unhandled, isMediaDevicesSupported, viaModal, micIds,
                    started, permissionStatus, devices, hasInitialDevices,
                    isMounted, timers, enumList, pending, isOpen,
                    previewDeps, lastCam >>
    /\ Render(videoSrc)

\* the enumerations of a session whose includeCamera option changes
InitInclusion ==
    /\ includeCamera \in BOOLEAN
    /\ isMediaDevicesSupported \in BOOLEAN
    /\ viaModal = FALSE
    /\ micIds = Microphones
    /\ InitState
    /\ plugged \in PlatformLists
    /\ env = BrowserPlatform(isMediaDevicesSupported)
    /\ ProbeInit
    /\ MonitorInit
    /\ AudioInit

NextInclusion ==
    \/ Start
    \/ \E b \in BOOLEAN : SetIncludeCamera(b)
    \/ HotPlug
    \/ TrailingRun
    \/ EnumGumResolve
    \/ \E denied \in BOOLEAN : EnumGumReject(denied)
    \/ \E list \in PlatformLists : EnumListResolve(list)
    \/ \E denied \in BOOLEAN : EnumListReject(denied)
    \/ Unmount

SpecInclusion == InitInclusion /\ [][NextInclusion]_vars

\* ------------------------ DeviceSelectorModal.tsx: the microphone effects
\* The frames of analyzeAudio and updateVolume re-request themselves; what a
\* frame publishes is computed in SpecPure, when frames are requested here.
host == << config, started, hookState, refs, closure, procs, modal, history,
          probe, plugged >>

\* an effect of the modal's microphone monitoring has to run
AudioEffectPending ==
    /\ viaModal /\ started
    /\ (micDeps # MicDeps \/ volDeps # VolDeps)

\* isOpen && selectedDevices.microphoneId
MicrophoneShown == isOpen /\ selectedDevices.microphoneId # Null

\* the microphone effect: the cleanup of its previous run, then its body.
\* A run that returned early has no cleanup, and what the cleanup of another
\* run resets is then already reset.
MicrophoneEffect ==
    /\ viaModal /\ started
    /\ micDeps # MicDeps
    /\ micDeps' = MicDeps
    /\ UNCHANGED << gainDeps, gainCalls, gainLive >>
    /\ freshOld' = freshOld + freshCur
    /\ freshCur' = 0
    /\ analysisFrame' = FALSE
    /\ audioStreamRef' = FALSE
    /\ initTimer' = MicrophoneShown
    /\ volume' = IF (micDeps[1] /\ micDeps[2] # Null) \/ ~MicrophoneShown
                 THEN 0 ELSE volume
    /\ UNCHANGED << volDeps, animationRunning,
                    systemVolume, sampled, normalizedVolume, monitorStep,
                    host >>

\* initTimer fires: initializeMicrophone() up to await getFreshStream(...)
initializeMicrophone ==
    /\ initTimer /\ ~AudioEffectPending
    /\ initTimer' = FALSE
    /\ IF audioStreamRef
       THEN UNCHANGED freshCur
       ELSE /\ freshCur + freshOld < MaxFresh
            /\ freshCur' = freshCur + 1
    /\ UNCHANGED << micDeps, freshOld,
                    audioStreamRef, analysisFrame, volDeps, animationRunning,
                    gainDeps, gainCalls, gainLive, monitor, host >>

\* getFreshStream resolved with a stream: if (!result || !isMounted) ...;
\* current says that the closure's isMounted is still true
getFreshStreamResolve(current) ==
    /\ ~AudioEffectPending
    /\ IF current
       THEN /\ freshCur > 0
            /\ freshCur' = freshCur - 1
            /\ audioStreamRef' = TRUE
            /\ analysisFrame' = TRUE
            /\ UNCHANGED freshOld
       ELSE /\ freshOld > 0
            /\ freshOld' = freshOld - 1
            /\ UNCHANGED << freshCur, audioStreamRef, analysisFrame >>
    /\ UNCHANGED << micDeps, initTimer, volDeps,
                    animationRunning, gainDeps, gainCalls, gainLive, monitor, host >>

\* getFreshStream resolved with null: getUserMedia rejected, or the stream
\* has no audio track
getFreshStreamNull(current) ==
    /\ ~AudioEffectPending
    /\ IF current
       THEN /\ freshCur > 0
            /\ freshCur' = freshCur - 1
            /\ UNCHANGED freshOld
       ELSE /\ freshOld > 0
            /\ freshOld' = freshOld - 1
            /\ UNCHANGED freshCur
    /\ UNCHANGED << micDeps, initTimer,
                    audioStreamRef, analysisFrame, volDeps, animationRunning,
                    gainDeps, gainCalls, gainLive, monitor, host >>

\* activeStream has an audio track whose readyState is "live"
HasLiveAudioTrack ==
    /\ activeStream # NoStream
    /\ streams[activeStream].kind = "audio"
    /\ streams[activeStream].live

\* the volume analysis effect: the cleanup of its previous run, then its body
VolumeEffect ==
    /\ viaModal /\ started
    /\ micDeps = MicDeps /\ volDeps # VolDeps
    /\ volDeps' = VolDeps
    /\ animationRunning' = (MicrophoneShown /\ HasLiveAudioTrack)
    /\ UNCHANGED << micDeps, initTimer, freshCur,
                    freshOld, audioStreamRef, analysisFrame, gainDeps,
                    gainCalls, gainLive, monitor, host >>

\* a session through the modal, on a supporting platform, camera included
InitMonitor ==
    /\ includeCamera = TRUE
    /\ isMediaDevicesSupported = TRUE
    /\ viaModal = TRUE
    /\ micIds = Microphones
    /\ InitState
    /\ plugged \in PlatformLists
    /\ env = BrowserPlatform(isMediaDevicesSupported)
    /\ ProbeInit
    /\ MonitorInit
    /\ AudioInit

\* React runs the effects that are due before it handles the next event
EffectsDone == ~AudioEffectPending

\* the steps of the session and of the modal's effects; the hot-plug events of
\* SpecMonitor arrive while no enumeration runs
NextMonitor ==
    \/ EffectsDone /\ Start
    \/ EffectsDone /\ \E kind \in Kinds : \E id \in IdsOf(kind) :
                          UserSelect(kind, id)
    \/ EffectsDone /\ \E i \in 1..MaxPending : AcquireResolve(i)
    \/ EffectsDone /\ \E i \in 1..MaxPending : AcquireReject(i)
    \/ EffectsDone /\ ~isEnumerating /\ HotPlug
    \/ EffectsDone /\ EnumGumResolve
    \/ EffectsDone /\ \E denied \in BOOLEAN : EnumGumReject(denied)
    \/ EffectsDone /\ \E list \in PlatformLists : EnumListResolve(list)
    \/ EffectsDone /\ \E denied \in BOOLEAN : EnumListReject(denied)
    \/ EffectsDone /\ Unmount
    \/ EffectsDone /\ \E open \in BOOLEAN : SetOpen(open)
    \/ EffectsDone /\ CameraPreviewEffect
    \/ EffectsDone /\ DeselectCamera
    \/ MicrophoneEffect
    \/ initializeMicrophone
    \/ \E current \in BOOLEAN : getFreshStreamResolve(current)
    \/ \E current \in BOOLEAN : getFreshStreamNull(current)
    \/ VolumeEffect

SpecMonitor == InitMonitor /\ [][NextMonitor]_vars

\* ------------------ DeviceSelectorModal.tsx: the capture of getSystemVolume
\* the effect that calls getSystemVolume() has to run
GainEffectPending == viaModal /\ started /\ gainDeps # MicDeps

\* the effect on [isOpen, selectedDevices.microphoneId] that calls
\* getSystemVolume(); it has no cleanup
SystemVolumeEffect ==
    /\ GainEffectPending
    /\ gainDeps' = MicDeps
    /\ IF MicrophoneShown
       THEN /\ gainCalls < MaxGain
            /\ gainCalls' = gainCalls + 1
       ELSE UNCHANGED gainCalls
    /\ UNCHANGED << gainLive, micDeps, initTimer, freshCur, freshOld,
                    audioStreamRef, analysisFrame, volDeps, animationRunning,
                    monitor, host >>

\* how getSystemVolume() goes on from its await: getUserMedia rejected; the
\* gain was sampled and the tracks were stopped; or a statement between the
\* await and the stop raised, which the catch block takes
GainOutcomes == { "rejected", "sampled", "raised" }

\* the tracks of the stream of getSystemVolume() are left live
getSystemVolumeLive(outcome) == outcome = "raised"

\* getSystemVolume() after its await, whatever the modal shows by then; the
\* gain it samples is that of the GainNode it has just created, which is 1
getSystemVolume(outcome) ==
    /\ viaModal /\ started
    /\ gainCalls > 0
    /\ gainCalls' = gainCalls - 1
    /\ gainLive' = (gainLive \/ getSystemVolumeLive(outcome))
    /\ systemVolume' = GainDen
    /\ UNCHANGED << volume, sampled, normalizedVolume, monitorStep,
                    micDeps, initTimer, freshCur, freshOld, audioStreamRef,
                    analysisFrame, volDeps, animationRunning, gainDeps,
                    host >>

\* the effect of getSystemVolume, which is declared first, has run
GainDone == ~GainEffectPending

\* the session of SpecMonitor with the effect of getSystemVolume
NextGain ==
    \/ GainDone /\ EffectsDone /\ Start
    \/ GainDone /\ EffectsDone /\ \E kind \in Kinds : \E id \in IdsOf(kind) :
            UserSelect(kind, id)
    \/ GainDone /\ EffectsDone /\ \E i \in 1..MaxPending : AcquireResolve(i)
    \/ GainDone /\ EffectsDone /\ \E i \in 1..MaxPending : AcquireReject(i)
    \/ GainDone /\ EffectsDone /\ ~isEnumerating /\ HotPlug
    \/ GainDone /\ EffectsDone /\ EnumGumResolve
    \/ GainDone /\ EffectsDone /\ \E denied \in BOOLEAN : EnumGumReject(denied)
    \/ GainDone /\ EffectsDone /\ \E list \in PlatformLists : EnumListResolve(list)
    \/ GainDone /\ EffectsDone /\ \E denied \in BOOLEAN : EnumListReject(denied)
    \/ GainDone /\ EffectsDone /\ Unmount
    \/ GainDone /\ EffectsDone /\ \E open \in BOOLEAN : SetOpen(open)
    \/ GainDone /\ EffectsDone /\ CameraPreviewEffect
    \/ GainDone /\ EffectsDone /\ DeselectCamera
    \/ GainDone /\ MicrophoneEffect
    \/ GainDone /\ initializeMicrophone
    \/ GainDone /\ \E current \in BOOLEAN : getFreshStreamResolve(current)
    \/ GainDone /\ \E current \in BOOLEAN : getFreshStreamNull(current)
    \/ GainDone /\ VolumeEffect
    \/ SystemVolumeEffect
    \/ \E outcome \in GainOutcomes : getSystemVolume(outcome)

SpecGain == InitMonitor /\ [][NextGain]_vars


\* ------------------------------------------------- the pure computations
session == << config, started, hookState, refs, closure, procs, modal,
             history, audio, plugged >>

\* const env = checkEnvironmentSupport()
Probe ==
    /\ probeCalls < MaxCalls
    /\ report' = checkEnvironmentSupport(env)
    /\ probeCalls' = probeCalls + 1
    /\ UNCHANGED << env, monitor, session >>

\* the monitor analyses a stream it got from getUserMedia
MonitorCanRun == env.window /\ env.mediaDevices /\ env.getUserMedia

\* one frame of analyzeAudio: setVolume(avg / 255)
analyzeAudio(buf) ==
    /\ MonitorCanRun
    /\ sampled' = Sum(buf)
    /\ normalizedVolume' = Level(Sum(buf))
    /\ volume' = Level(Sum(buf))
    /\ monitorStep' = "analyzeAudio"
    /\ UNCHANGED << systemVolume, probe, session >>

\* one frame of updateVolume
updateVolume(buf) ==
    /\ MonitorCanRun
    /\ sampled' = Sum(buf)
    /\ normalizedVolume' = NormalizedVolume(Sum(buf))
    /\ volume' = NewVolume(SystemScaledVolume(NormalizedVolume(Sum(buf)),
                                              systemVolume), volume)
    /\ monitorStep' = "updateVolume"
    /\ UNCHANGED << systemVolume, probe, session >>

\* getSystemVolume: setSystemVolume(currentGain), or 1.0 on failure
SetSystemVolume(gain) ==
    /\ gain # GainDen => MonitorCanRun
    /\ systemVolume' = gain
    /\ UNCHANGED << volume, sampled, normalizedVolume, monitorStep, probe,
                    session >>

\* setVolume(0) when the microphone effect is cleaned up
ResetVolume ==
    /\ volume' = 0
    /\ monitorStep' = "none"
    /\ UNCHANGED << systemVolume, sampled, normalizedVolume, probe, session >>

NextPure ==
    \/ Probe
    \/ \E buf \in Buffers : analyzeAudio(buf)
    \/ \E buf \in Buffers : updateVolume(buf)
    \/ \E gain \in 0..GainDen : SetSystemVolume(gain)
    \/ ResetVolume

SpecPure == InitPure /\ [][NextPure]_vars


\* ------------------------------------------------------------------ claims
EnumInFlight == enumGum + enumList

StreamIds == 1..Len(streams)

LiveStreams(k) == {s \in StreamIds : streams[s].live /\ streams[s].kind = k}

\* nothing is suspended at an await and no callback is queued
Settled ==
    /\ pending = << >>
    /\ EnumInFlight = 0
    /\ timers = 0
    /\ ~EffectPending

\* the step is the rejection of the i-th suspended selectDevice call
RejectStep(i) ==
    /\ i \in 1..Len(pending)
    /\ pending' = Remove(pending, i)
    /\ Len(streams') = Len(streams)

\* the step runs the finally block of handleDeviceChange
FinishStep == isEnumerating /\ ~isEnumerating'

\* the step belongs to the enumeration machinery and is no selectDevice call
EnumStep ==
    \/ enumGum' # enumGum
    \/ enumList' # enumList
    \/ timers' # timers

\* C1: once every selectDevice call for one input kind has resolved, at most
\* one live stream of that kind exists and every live track is a track of
\* activeStream.
C1_NoLeakAfterSettle ==
    \A k \in {"audio", "video"} :
        (Settled /\ \A s \in StreamIds : streams[s].kind = k)
            => /\ Cardinality(LiveStreams(k)) <= 1
               /\ LiveStreams(k) \subseteq {activeStream}

\* C2: in every reachable state there are never two live capture streams of
\* the same kind.
C2_OneLiveStreamPerKind ==
    \A k \in {"audio", "video"} : Cardinality(LiveStreams(k)) <= 1

\* C3: when the user's latest camera choice is "No camera" and everything has
\* settled, cameraId is null and no video track is live.
C3_DeselectLeavesNoVideo ==
    (Settled /\ lastCam = Null)
        => /\ selectedDevices.cameraId = Null
           /\ LiveStreams("video") = {}

\* C4: when an enumeration completes, exactly one trailing handleDeviceChange
\* is queued if n >= 1 hot-plug events arrived while it ran, whatever n is, and
\* none if no request arrived; the trailing call, when it fires on an idle
\* mounted session, starts exactly one enumeration.
C4_ExactlyOneTrailing ==
    [][ /\ FinishStep =>
            /\ eventsDuring >= 1 => timers' = timers + 1
            /\ ~pendingDeviceChange => timers' = timers
            /\ ~pendingDeviceChange'
        /\ (timers' = timers - 1 /\ isMounted /\ ~isEnumerating) =>
            /\ isEnumerating'
            /\ EnumInFlight' = EnumInFlight + 1
      ]_vars

\* two hot-plug events arrived during an enumeration that has completed, and
\* one trailing call is queued
C4_Witness == ~isEnumerating /\ eventsDuring = 2 /\ timers = 1 /\ isMounted

\* C5: at no time are two enumerations (permission request followed by
\* enumerateDevices) in flight at once.
C5_NoConcurrentEnumeration == EnumInFlight <= 1

\* a hot-plug event was coalesced while an enumeration is in flight
C5_Witness == EnumInFlight = 1 /\ pendingDeviceChange /\ eventsDuring >= 1

\* C6: after disposal no step changes activeStream, the stream handle,
\* devices, selectedDevices, permissionStatus, isLoading or error, and a
\* stream that resolves then has its tracks stopped at once.
C6_DiscardAfterDisposal ==
    [][ ~isMounted =>
            /\ UNCHANGED << activeStream, streamRef, devices, selectedDevices,
                            permissionStatus, isLoading, error >>
            /\ \A s \in (Len(streams) + 1)..Len(streams') : ~streams'[s].live
      ]_vars

\* after disposal a stream has resolved and a device list has arrived
C6_Witness ==
    /\ started /\ ~isMounted
    /\ \E s \in StreamIds : streams[s].late
    /\ lastList = "discarded"
    /\ activeStream = NoStream /\ devices = << >> /\ isLoading

SelectedOf(sel, kind) ==
    IF kind = "audioinput" THEN sel.microphoneId
    ELSE IF kind = "videoinput" THEN sel.cameraId ELSE sel.speakerId

\* C7: selectDevice(kind, id) has set the selected id of that kind when it
\* suspends at the capture request; when the request is rejected the
\* selection stays as it is and error becomes the access failure.
C7_OptimisticSelection ==
    [][ /\ Len(pending') = Len(pending) + 1 =>
            LET op == pending'[Len(pending')]
            IN  SelectedOf(selectedDevices', op.kind) = op.deviceId
        /\ \A i \in 1..Len(pending) :
              RejectStep(i) =>
                /\ selectedDevices' = selectedDevices
                /\ isMounted => error' = "access"
      ]_vars

\* the acquisition for microphone m1 has failed and m1 is still selected
C7_Witness ==
    /\ isMounted /\ error = "access"
    /\ selectedDevices.microphoneId = "m1"
    /\ pending = << >> /\ streams = << >>

\* C8: when an acquisition fails and no other stream has been handed out
\* since the attempt was made, activeStream is what it was before the attempt
\* and every track that was live before the attempt is still live.
C8_FailureLeavesStreams ==
    [][ \A i \in 1..Len(pending) :
          (RejectStep(i) /\ Len(streams) = pending[i].count) =>
            /\ activeStream' = pending[i].before
            /\ \A s \in pending[i].live : streams'[s].live
      ]_vars

\* C9: a step of the enumeration machinery never changes a non-null
\* microphoneId or speakerId, and a list that is applied sets a null one to
\* the first catalog entry of its kind.
C9_SeedOnlyWhileNull ==
    [][ EnumStep =>
          \A kind \in {"audioinput", "audiooutput"} :
            LET old == SelectedOf(selectedDevices, kind)
                new == SelectedOf(selectedDevices', kind)
            IN  /\ old # Null => new = old
                /\ (old = Null /\ lastList' = "applied")
                      => new = FirstId(devices', kind)
                /\ (old = Null /\ lastList' # "applied") => new = Null
      ]_vars

\* a list was just applied whose first microphone and speaker are not the
\* ones the user chose, and the user's choices stand
C9_Witness ==
    /\ lastList = "applied"
    /\ selectedDevices.microphoneId = "m1"
    /\ FirstId(devices, "audioinput") = "m2"
    /\ selectedDevices.speakerId = "s1"
    /\ FirstId(devices, "audiooutput") = "s2"

\* C10: cameraId is null before start, and a non-null cameraId is the id of
\* the user's latest selectDevice("videoinput", id), never a catalog entry put
\* there by an enumeration.
C10_CameraNeverAutoSelected ==
    /\ ~started => selectedDevices.cameraId = Null
    /\ lastList = "applied" => selectedDevices.cameraId = Null
    /\ selectedDevices.cameraId # Null =>
          /\ selectedDevices.cameraId = lastCam
          /\ lastCam \in Cameras

\* the catalog holds a camera, and cameraId is set because the user chose it
C10_Witness ==
    /\ selectedDevices.cameraId = "c1"
    /\ lastCam = "c1"
    /\ FirstId(devices, "videoinput") = "c1"
    /\ permissionStatus = "granted"

\* C11: a re-enumeration (one that runs after an enumeration has succeeded,
\* so it was requested by a hot-plug event) never changes a non-null
\* microphoneId, cameraId or speakerId.
C11_HotPlugKeepsSelection ==
    [][ (EnumStep /\ permissionStatus = "granted") =>
          \A kind \in Kinds :
            SelectedOf(selectedDevices, kind) # Null =>
                SelectedOf(selectedDevices', kind)
                    = SelectedOf(selectedDevices, kind)
      ]_vars

\* the catalog holds an entry of kind videoinput
CatalogHasCamera == \E i \in 1..Len(devices) : devices[i].kind = "videoinput"

\* C12: when camera inclusion is disabled, in every reachable state the
\* catalog holds no video-input entry and cameraId is null.
C12_NoCameraWhenExcluded ==
    ~includeCamera => (~CatalogHasCamera /\ selectedDevices.cameraId = Null)

\* C13: once the published isLoading is false after a successful enumeration,
\* no step makes it true again.
C13_LoadingNeverReturns ==
    [][ (~PublishedLoading /\ permissionStatus = "granted")
            => ~PublishedLoading' ]_vars

\* C14: once permissionStatus is denied, no step changes it and no step
\* starts another permission request of the enumeration.
C14_DeniedIsTerminal ==
    [][ permissionStatus = "denied"
            => (permissionStatus' = "denied" /\ enumGum' <= enumGum) ]_vars

\* C15: when the platform has no navigator.mediaDevices, after start
\* permissionStatus is not-supported and no enumeration has been started.
C15_UnsupportedIsTerminal ==
    (started /\ ~isMediaDevicesSupported)
        => /\ permissionStatus = "not-supported"
           /\ EnumInFlight = 0 /\ ~isEnumerating

\* the track kind of stream s is bound to the selected id of that kind
BoundToSelection(s) ==
    streams[s].deviceId =
        (IF streams[s].kind = "audio" THEN selectedDevices.microphoneId
         ELSE selectedDevices.cameraId)

\* C16: when every selectDevice call has settled without a failure and no
\* device list has been applied (only selectDevice has written the
\* selection), a live activeStream is bound to the selected id of its kind.
C16_ActiveStreamMatchesSelection ==
    (isMounted /\ Settled /\ error = Null /\ devices = << >>
        /\ activeStream # NoStream /\ streams[activeStream].live)
            => BoundToSelection(activeStream)

\* exactly two selectDevice acquisitions have succeeded, one for the selected
\* microphone and one for the selected camera, and nothing is in flight
BothAcquired ==
    /\ isMounted /\ pending = << >> /\ error = Null
    /\ Len(streams) = 2
    /\ {streams[1].kind, streams[2].kind} = {"audio", "video"}
    /\ \A s \in StreamIds : ~streams[s].late /\ BoundToSelection(s)

\* C17: after a successful selectDevice for the microphone and a successful
\* selectDevice for the camera, in either order, the audio track and the
\* video track are both live.
C17_BothKindsStayLive ==
    BothAcquired => \A s \in StreamIds : streams[s].live

\* C18: a step in which selectDevice("audiooutput", id) changes speakerId
\* issues no capture request, creates and stops no stream, and leaves
\* activeStream, the stream handle, microphoneId and cameraId unchanged.
C18_SpeakerSelectionOnly ==
    [][ (selectedDevices'.speakerId # selectedDevices.speakerId /\ ~EnumStep)
          => /\ UNCHANGED << pending, streams, activeStream, streamRef,
                             enumGum, enumList >>
             /\ selectedDevices'.microphoneId = selectedDevices.microphoneId
             /\ selectedDevices'.cameraId = selectedDevices.cameraId
      ]_vars

\* the user has selected speaker s1 (the catalog is empty, so no list put it
\* there), and the microphone stream is live and exposed
C18_Witness ==
    /\ selectedDevices.speakerId = "s1"
    /\ selectedDevices.microphoneId = "m1"
    /\ pending = << >>
    /\ activeStream # NoStream /\ streams[activeStream].live
    /\ streams[activeStream].kind = "audio"
    /\ lastList = "none" /\ devices = << >>

\* the monitor has read a buffer whose mean is below the noise threshold
BelowThreshold == monitorStep # "none" /\ sampled < Threshold * BufLen

\* C19: every published audio level lies in [0,1], and when the sampled mean
\* is below the noise threshold the level the monitor computed before gain
\* scaling is exactly 0.
C19_LevelBoundedAndGated ==
    /\ 0 <= volume /\ volume <= LevelDen
    /\ BelowThreshold => normalizedVolume = 0

\* the absent capability that comes first in the order host runtime, device
\* API, capture API, enumeration API
FirstAbsent(e) ==
    IF ~e.window THEN "browser"
    ELSE IF ~e.mediaDevices THEN "mediaDevices"
    ELSE IF ~e.getUserMedia THEN "getUserMedia"
    ELSE IF ~e.enumerateDevices THEN "enumerateDevices"
    ELSE NoError

AllPresent(e) ==
    e.window /\ e.mediaDevices /\ e.getUserMedia /\ e.enumerateDevices

\* C20: every call of the probe returns a report that has an error exactly
\* when a capability is absent, the error names the first absent capability,
\* the call changes nothing but the report, and a further call returns the
\* same report.
C20_ProbeReportsFirstAbsent ==
    [][ probeCalls' # probeCalls =>
          /\ report' # NoReport
          /\ (report'.error # NoError) <=> ~AllPresent(env)
          /\ report'.error = FirstAbsent(env)
          /\ UNCHANGED << env, monitor, session >>
          /\ report # NoReport => report' = report
      ]_vars

\* the probe was called twice on a platform that lacks both the capture and
\* the enumeration API, and names the capture API
C20_Witness ==
    /\ probeCalls = 2
    /\ env.window /\ env.mediaDevices
    /\ ~env.getUserMedia /\ ~env.enumerateDevices
    /\ report # NoReport /\ report.error = "getUserMedia"

\* C21: the step that disposes of the session stops every track of the
\* session's stream, and from then on the hot-plug listener is unregistered
\* and the stream handle is null; once the cleanups of the modal's effects
\* have run, no frame of analyzeAudio or of updateVolume is requested and the
\* timer of the microphone effect is cleared.
C21_DisposeReleasesAll ==
    [][ /\ (isMounted /\ ~isMounted' /\ streamRef # NoStream)
              => ~streams'[streamRef].live
        /\ ~isMounted' =>
              /\ listener' = 0
              /\ streamRef' = NoStream
              /\ ~AudioEffectPending' =>
                    (~analysisFrame' /\ ~animationRunning' /\ ~initTimer'
                        /\ ~audioStreamRef')
      ]_vars

\* the session was disposed of while its stream was exposed and both loops
\* were running: the stream is stopped, the cleanups of the effects are due
C21_Witness ==
    /\ started /\ ~isMounted /\ listener = 0
    /\ analysisFrame /\ animationRunning
    /\ volDeps[1] # NoStream /\ ~streams[volDeps[1]].live
    /\ streamRef = NoStream

\* the step is the successful completion of a selectDevice acquisition
AcquiredStep ==
    /\ Len(streams') = Len(streams) + 1
    /\ ~streams'[Len(streams')].late

\* C22: an access error stays published until an acquisition succeeds or
\* another error replaces it, an enumeration error until a device list is
\* applied or another error replaces it, and right after such a success the
\* error of that kind is no longer published.
C22_ErrorUntilSuccess ==
    [][ /\ (error = "access" /\ error' = Null) => AcquiredStep
        /\ (error = "enumerate" /\ error' = Null) => lastList' = "applied"
        /\ AcquiredStep => error' # "access"
        /\ lastList' = "applied" => error' # "enumerate"
      ]_vars

\* the step ends an enumeration that applied and discarded no device list:
\* its permission request or its enumerateDevices() was rejected
EnumFailStep == EnumInFlight' < EnumInFlight /\ lastList' = "none"

\* C23: no promise of selectDevice or of handleDeviceChange ever rejects;
\* on a mounted session a rejected capture request ends up in error, and a
\* rejected permission request or enumerateDevices() ends up in error or in
\* permissionStatus, with the enumeration finished and isLoading reset.
C23_NoUncaughtRejection ==
    [][ /\ ~unhandled'
        /\ \A i \in 1..Len(pending) :
              (RejectStep(i) /\ isMounted) => error' = "access"
        /\ (EnumFailStep /\ isMounted) =>
              /\ error' = "enumerate" \/ permissionStatus' = "denied"
              /\ ~isEnumerating' /\ ~isLoading'
      ]_vars

\* the permission request was rejected with NotAllowedError and a capture
\* request was rejected, both calls have returned
C23_Witness ==
    /\ isMounted /\ ~unhandled
    /\ permissionStatus = "denied" /\ error = "access"
    /\ pending = << >> /\ EnumInFlight = 0 /\ ~isEnumerating

\* C24: every live capture track is a track of activeStream: no stream
\* handed out to selectDevice is live unless it is activeStream, and the
\* modal holds no capture stream of its own.
C24_OnlySessionCaptures ==
    /\ \A s \in StreamIds : streams[s].live => s = activeStream
    /\ ~audioStreamRef

\* the step is a click on the "No camera" entry while a camera is selected
DeselectStep ==
    /\ NoCameraOption /\ ~EffectPending
    /\ selectedDevices.cameraId # Null
    /\ lastCam' = Null
    /\ selectedDevices'.cameraId = Null
    /\ UNCHANGED << pending, isOpen, isMounted, enumGum, enumList, timers >>

\* C25: a click on "No camera" leaves every audio track live that was live
\* before it, and leaves microphoneId and speakerId unchanged.
C25_DeselectKeepsAudio ==
    [][ DeselectStep =>
          /\ \A s \in StreamIds :
                (streams[s].kind = "audio" /\ streams[s].live)
                    => streams'[s].live
          /\ selectedDevices'.microphoneId = selectedDevices.microphoneId
          /\ selectedDevices'.speakerId = selectedDevices.speakerId
      ]_vars

\* C26: while enumerateDevices() is awaited, and so before its list is
\* processed, every track of the stream of the permission request is stopped,
\* also when the session is disposed of meanwhile; that stream asked for
\* audio, and for video exactly when camera inclusion is enabled; it is never
\* activeStream or the stream handle, which are null or streams handed to
\* selectDevice.
C26_PermissionStreamStopped ==
    /\ ~permStream.live
    /\ enumList > 0 =>
          /\ permStream.audio
          /\ permStream.video = includeCamera
    /\ activeStream \in {NoStream} \cup StreamIds
    /\ streamRef \in {NoStream} \cup StreamIds

\* the session, with the camera included, was disposed of while
\* enumerateDevices() is awaited; the permission stream is stopped
C26_Witness ==
    /\ started /\ ~isMounted /\ includeCamera
    /\ enumList > 0
    /\ permStream.audio /\ permStream.video /\ ~permStream.live

\* camera, speaker or microphone; a kind that is neither is a microphone
CatalogKind(k) ==
    IF k = "videoinput" THEN "videoinput"
    ELSE IF k = "audiooutput" THEN "audiooutput" ELSE "audioinput"

\* the entries of list that have an identifier, without the cameras when the
\* camera is excluded, in the order of list, each with its kind mapped
RECURSIVE Refreshed(_)
Refreshed(list) ==
    IF list = << >> THEN << >>
    ELSE LET d    == Head(list)
             drop == d.deviceId = "" \/ (~includeCamera /\ d.kind = "videoinput")
             rest == Refreshed(Tail(list))
         IN  IF drop THEN rest
             ELSE << [deviceId |-> d.deviceId, kind |-> CatalogKind(d.kind)] >>
                      \o rest

ListOf(kind) ==
    IF kind = "audioinput" THEN exposedDeviceLists.microphones
    ELSE IF kind = "videoinput" THEN exposedDeviceLists.cameras
    ELSE exposedDeviceLists.speakers

\* how many of the first j catalog entries are of kind
Rank(kind, j) == Cardinality({x \in 1..j : devices[x].kind = kind})

\* C28: when the published isLoading is false, the three exposed lists have
\* together as many entries as the catalog, the n-th catalog entry of a kind
\* is the n-th entry of the list of that kind and of no other list, and its
\* isSelected flag is true exactly when its id is the selected id of its
\* kind.
C28_ListsPartitionCatalog ==
    ~PublishedLoading =>
        LET lists == exposedDeviceLists
            listOf(kind) ==
                IF kind = "audioinput" THEN lists.microphones
                ELSE IF kind = "videoinput" THEN lists.cameras
                ELSE lists.speakers
        IN  /\ Len(lists.microphones) + Len(lists.cameras)
                  + Len(lists.speakers) = Len(devices)
            /\ \A kind \in Kinds : \A i \in 1..Len(listOf(kind)) :
                  listOf(kind)[i].kind = kind
            /\ \A j \in 1..Len(devices) :
                  LET d == devices[j]
                      n == Rank(d.kind, j)
                  IN  /\ n <= Len(listOf(d.kind))
                      /\ listOf(d.kind)[n].deviceId = d.deviceId
                      /\ listOf(d.kind)[n].isSelected
                            <=> (d.deviceId
                                    = SelectedOf(selectedDevices, d.kind))

\* the lists are exposed, each kind has entries, and the user's microphone
\* and camera are marked while the other microphone is not
C28_Witness ==
    /\ ~PublishedLoading
    /\ selectedDevices.microphoneId = "m1"
    /\ selectedDevices.cameraId = "c1"
    /\ Len(ListOf("audioinput")) = 2
    /\ ~ListOf("audioinput")[1].isSelected
    /\ ListOf("audioinput")[2].isSelected
    /\ Len(ListOf("videoinput")) = 1
    /\ ListOf("videoinput")[1].isSelected
    /\ Len(ListOf("audiooutput")) = 2

\* the step is a frame of one of the monitor loops
TickStep ==
    /\ monitorStep' # "none"
    /\ << sampled, normalizedVolume, volume, monitorStep >>'
          # << sampled, normalizedVolume, volume, monitorStep >>

\* the gain-scaled value of a buffer whose entries add up to sum
GainScaled(sum, gain) ==
    IF sum < Threshold * BufLen THEN 0
    ELSE (Min(sum * GainDen * DecayDen, LevelDen) * gain) \div GainDen

\* C29: every frame of the monitor publishes the gain-scaled value of the
\* buffer it read if that value exceeds the level published before, and
\* otherwise max(previous - 0.02, 0).
C29_AttackAndDecay ==
    [][ TickStep =>
          LET scaled == GainScaled(sampled', systemVolume)
          IN  volume' = IF scaled > volume THEN scaled
                        ELSE Max(volume - LevelDen \div DecayDen, 0)
      ]_vars

\* the step is a selectDevice("videoinput", id) call, a change of speakerId
\* by selectDevice("audiooutput", id), or a step of a re-enumeration
UnrelatedStep ==
    \/ /\ Len(pending') = Len(pending) + 1
       /\ pending'[Len(pending')].kind = "videoinput"
    \/ /\ selectedDevices'.speakerId # selectedDevices.speakerId
       /\ ~EnumStep
    \/ /\ EnumStep
       /\ permissionStatus = "granted"

\* C30: while the frames of a monitor loop are requested, selecting a camera,
\* selecting a speaker and the steps of a hot-plug re-enumeration change no
\* dependency of the effect that owns the loop, so the loop is neither
\* stopped nor restarted.
C30_MonitorKeptByUnrelated ==
    [][ (UnrelatedStep /\ ~AudioEffectPending) =>
          /\ animationRunning => VolDeps' = VolDeps
          /\ analysisFrame => MicDeps' = MicDeps
      ]_vars

\* C31: once the effects that are due have run, a requested frame of
\* updateVolume reads a graph fed by a live audio track of activeStream on an
\* open, mounted modal with a microphone selected, and a requested frame of
\* analyzeAudio reads the stream held in audioStreamRef on such a modal.
C31_LoopHasLiveSource ==
    ~AudioEffectPending =>
        /\ animationRunning =>
              (isMounted /\ MicrophoneShown /\ HasLiveAudioTrack)
        /\ analysisFrame => (isMounted /\ MicrophoneShown /\ audioStreamRef)

\* C32: from the state in which the hook has applied the result of an
\* enumeration, the published isLoading becomes false at some time unless
\* the session is disposed of, also when the result holds no device.
C32_LoadingEnds ==
    (lastList = "applied") ~> (~PublishedLoading \/ ~isMounted)

\* C39: when the set of attached devices stays what the last hot-plug event
\* made it, then from some time on the catalog of a started session that is
\* not disposed of is the formatted list of the attached devices.
C39_RefreshNeverLost ==
    \A list \in AttachedSets :
        <>[](plugged = list) =>
            <>[]((started /\ isMounted) => devices = FormatDevices(list))

\* a stale list has been applied: a hot-plug event arrived while
\* enumerateDevices() was awaited, and the trailing call is queued
C39_Witness ==
    /\ isMounted /\ ~isEnumerating /\ timers = 1
    /\ eventsDuring >= 1
    /\ permissionStatus = "granted"
    /\ devices # FormatDevices(plugged)

\* the step issues a capture request for a camera
CameraRequestStep ==
    /\ Len(pending') = Len(pending) + 1
    /\ pending'[Len(pending')].kind = "videoinput"

\* the step is a run of the modal's camera preview effect
PreviewEffectStep == previewDeps' # previewDeps

\* C33: while the failure of a camera acquisition is the published error (no
\* selectDevice call was made since, and the user has never selected a
\* microphone, so the failure is a camera's), a capture request for a camera
\* is issued only by a selection of the user, never by the camera preview
\* effect.
C33_NoAutomaticRetry ==
    [][ (error = "access" /\ selectedDevices.microphoneId \notin micIds
            /\ CameraRequestStep)
          => ~PreviewEffectStep
      ]_vars

\* a capture request for the selected camera is suspended at getUserMedia
CameraInFlight ==
    \E i \in 1..Len(pending) :
        /\ pending[i].kind = "videoinput"
        /\ pending[i].deviceId = selectedDevices.cameraId

\* C36: while the capture request of selectDevice for the selected camera is
\* in flight, a run of the camera preview effect issues no capture request.
C36_OneRequestPerSelection ==
    [][ (PreviewEffectStep /\ CameraInFlight) => pending' = pending ]_vars

\* C34: a step of an enumeration that applies no device list leaves devices
\* and selectedDevices unchanged; the step in which the permission request or
\* enumerateDevices() fails also leaves the streams and activeStream
\* unchanged, and on a mounted session it either sets permissionStatus to
\* denied and leaves error, or sets error to the failure and leaves
\* permissionStatus; on a disposed session it changes neither.
C34_FailedRefreshKeepsState ==
    [][ /\ (EnumStep /\ lastList' # "applied") =>
              UNCHANGED << devices, selectedDevices >>
        /\ EnumFailStep =>
              /\ UNCHANGED << activeStream, streamRef, streams,
                              hasInitialDevices >>
              /\ isMounted =>
                    \/ permissionStatus' = "denied" /\ error' = error
                    \/ error' = "enumerate"
                          /\ permissionStatus' = permissionStatus
              /\ ~isMounted => UNCHANGED << permissionStatus, error >>
      ]_vars

\* a re-enumeration has failed with a failure other than a denial: the
\* catalog and the selection of the enumeration before it are still there
C34_Witness ==
    /\ isMounted /\ ~isEnumerating /\ EnumInFlight = 0
    /\ error = "enumerate" /\ permissionStatus = "granted"
    /\ Len(devices) > 0
    /\ selectedDevices.microphoneId # Null
    /\ selectedDevices.speakerId # Null

\* C35: at most one "devicechange" listener of the hook is registered; none
\* is registered before the mount effects have run, after disposal, or on a
\* platform without navigator.mediaDevices; exactly one is registered on a
\* started, mounted session otherwise, also after the device change effect
\* has run again, so a "devicechange" event is dispatched to one handler.
C35_OneListener ==
    /\ listener <= 1
    /\ (~started \/ ~isMounted \/ ~isMediaDevicesSupported) => listener = 0
    /\ (started /\ isMounted /\ isMediaDevicesSupported) => listener = 1

\* includeCamera has changed after an enumeration had succeeded, the device
\* change effect has run again, and its listener is the one registered
C35_Witness ==
    /\ started /\ isMounted /\ listener = 1
    /\ permissionStatus = "granted" /\ ~includeCamera
    /\ CatalogHasCamera
    /\ isEnumerating /\ enumGum = 1

\* C37: whenever activeStream holds a live video track, cameraId is not null,
\* in particular in a session through the modal with the camera included.
C37_LiveCameraIsSelected ==
    (viaModal /\ includeCamera
        /\ activeStream # NoStream /\ streams[activeStream].kind = "video"
        /\ streams[activeStream].live)
            => selectedDevices.cameraId # Null

\* C38: whenever activeStream is not null, a track of it is live.
C38_ActiveStreamIsLive ==
    activeStream # NoStream => streams[activeStream].live

\* the modal is closed or unmounted, the effects that are due have run and
\* every capture request of getFreshStream and getSystemVolume has settled
ModalQuiet ==
    /\ viaModal /\ ~isOpen
    /\ ~GainEffectPending /\ ~AudioEffectPending
    /\ freshCur + freshOld = 0
    /\ gainCalls = 0

\* the streams of getFreshStream have no live track on such a modal
FreshCapturesReleased == ModalQuiet => ~audioStreamRef

\* C40: once the modal is closed or unmounted, its effects have run and its
\* own capture requests have settled, no stream that getFreshStream or
\* getSystemVolume acquired has a live track, whenever the request resolved.
C40_ModalCapturesReleased ==
    ModalQuiet => (~audioStreamRef /\ ~gainLive)

====
